---- MODULE Spec2Model ----
(***************************************************************************)
(* Model of src/minesweeper.py: the Minesweeper board, the Sentence        *)
(* constraint type and the MinesweeperAI knowledge base with its closure   *)
(* (additional_check, inference) and its two move queries.                 *)
(***************************************************************************)
EXTENDS Integers, Sequences, FiniteSets, TLC

\* ---------------------------------------------------------------- bounds
Height == 3
Width == 4
MaxMines == 1
MaxMoves == 4
MaxSentenceCells == 2
MaxSteps == 200

\* ------------------------------------------------------------ primitives
\* Python's None.  An optional set-valued result is None or Some(set).
None == <<>>
Some(x) == <<x>>

\* The cells (i, j) of the grid: 0 <= i < height, 0 <= j < width.
Cells == (0 .. Height - 1) \X (0 .. Width - 1)

\* The order in which a `for x in cells` loop over a set of cells visits
\* them, taken to be the row-major position of the cell.  The loops that use
\* it only mark cells, and markings commute, so the order does not show in
\* the AI fields a call leaves; the number of steps the call takes is that
\* of this order.
Rank(c) == c[1] * Width + c[2]
FirstCell(cells) == CHOOSE c \in cells : \A d \in cells : Rank(c) <= Rank(d)

\* --------------------------------------------------------- Minesweeper
\* Cells within one row and column of cell, inside the grid, not cell.
Neighbours(cell) ==
  {c \in Cells : /\ c # cell
                 /\ c[1] \in (cell[1] - 1) .. (cell[1] + 1)
                 /\ c[2] \in (cell[2] - 1) .. (cell[2] + 1)}

\* Minesweeper.nearby_mines on the board b (the set of mined cells).
nearby_mines(b, cell) == Cardinality(Neighbours(cell) \cap b)

\* ------------------------------------------------------------ Sentence
Sentence(cells, count) == [cells |-> cells, count |-> count]

\* Mutants of known_mines: the length test left out; the `count > 0` test
\* left out.
known_mines_nolen(s) == IF s.count > 0 THEN Some(s.cells) ELSE None
known_mines_nopos(s) == IF s.count = Cardinality(s.cells) THEN Some(s.cells) ELSE None

known_mines(s) ==
  IF s.count = Cardinality(s.cells) /\ s.count > 0 THEN Some(s.cells) ELSE None

\* Mutants of known_safes: the `count == 0` test left out; `> 1` for `> 0`;
\* the `len(self.cells) > 0` test left out.
known_safes_nozero(s) == IF Cardinality(s.cells) > 0 THEN Some(s.cells) ELSE None
known_safes_nolen(s) == IF s.count = 0 THEN Some(s.cells) ELSE None
known_safes_gt1(s) ==
  IF s.count = 0 /\ Cardinality(s.cells) > 1 THEN Some(s.cells) ELSE None

known_safes(s) ==
  IF s.count = 0 /\ Cardinality(s.cells) > 0 THEN Some(s.cells) ELSE None

\* Mutants of Sentence.mark_mine: the cell is dropped, the count is kept;
\* the `if cell in self.cells` test left out.
Sentence_mark_mine_nodec(s, cell) == [s EXCEPT !.cells = @ \ {cell}]
Sentence_mark_mine_always(s, cell) ==
  [cells |-> s.cells \ {cell}, count |-> s.count - 1]

Sentence_mark_mine(s, cell) ==
  IF cell \in s.cells
  THEN [cells |-> s.cells \ {cell}, count |-> s.count - 1]
  ELSE s

\* Mutant of Sentence.mark_safe: a cell that is dropped is counted off.
Sentence_mark_safe_dec(s, cell) ==
  IF cell \in s.cells
  THEN [cells |-> s.cells \ {cell}, count |-> s.count - 1]
  ELSE s

Sentence_mark_safe(s, cell) == [s EXCEPT !.cells = @ \ {cell}]

\* ------------------------------------------------------- MinesweeperAI
\* The AI object is the record [moves_made, mines, safes, knowledge]; the
\* field derived logs every s3 built by inference during the current call,
\* the field sent is add_knowledge's local variable sent, and the field
\* steps counts the additional_check calls entered and the (s1, s2) pairs
\* visited by inference during the current call.  A call that has taken
\* MaxSteps steps is cut off there: additional_check returns at once and
\* the inference loops stop.
mark_mine(ai, cell) ==
  [ai EXCEPT !.mines = @ \cup {cell},
             !.knowledge = [i \in DOMAIN @ |-> Sentence_mark_mine(@[i], cell)]]

mark_safe(ai, cell) ==
  [ai EXCEPT !.safes = @ \cup {cell},
             !.knowledge = [i \in DOMAIN @ |-> Sentence_mark_safe(@[i], cell)]]

\* `s in knowledge`: list membership by Sentence.__eq__.
InKnowledge(s, knowledge) == \E i \in DOMAIN knowledge : knowledge[i] = s

\* Mutant of ListRemove: nothing is removed.
ListRemove_none(knowledge, s) == knowledge

\* list.remove(s): drop the first element equal to s; ValueError is passed.
ListRemove(knowledge, s) ==
  IF InKnowledge(s, knowledge)
  THEN LET i == CHOOSE i \in DOMAIN knowledge :
                  /\ knowledge[i] = s
                  /\ \A j \in 1 .. (i - 1) : knowledge[j] # s
       IN SubSeq(knowledge, 1, i - 1) \o SubSeq(knowledge, i + 1, Len(knowledge))
  ELSE knowledge

\* `for c in cells: self.mark_mine(c)` / `self.mark_safe(c)`.
RECURSIVE MarkAll(_, _, _)
MarkAll(ai, cells, asMine) ==
  IF cells = {} THEN ai
  ELSE LET c == FirstCell(cells)
       IN MarkAll(IF asMine THEN mark_mine(ai, c) ELSE mark_safe(ai, c),
                  cells \ {c}, asMine)

\* Python runs a call to completion before the statement after it; Strict(v)
\* makes the evaluation of v happen at that point instead of being deferred.
Strict(v) == v = v

\* additional_check: loop over a deep copy of the knowledge taken on entry;
\* every single marking is followed by a recursive additional_check.
RECURSIVE additional_check(_)
RECURSIVE CheckSentences(_, _, _)
RECURSIVE CheckCells(_, _, _)

CheckCells(ai, cells, asMine) ==
  IF cells = {} THEN ai
  ELSE LET c == FirstCell(cells)
           next == additional_check(IF asMine THEN mark_mine(ai, c) ELSE mark_safe(ai, c))
       IN IF Strict(next) THEN CheckCells(next, cells \ {c}, asMine) ELSE ai

CheckSentences(ai, knowledge_copy, n) ==
  IF n > Len(knowledge_copy) THEN ai
  ELSE LET sentence == knowledge_copy[n]
           ai1 == IF Cardinality(sentence.cells) <= 0
                  THEN [ai EXCEPT !.knowledge = ListRemove(@, sentence)]
                  ELSE ai
           cells_m == known_mines(sentence)
           cells_s == known_safes(sentence)
           ai2 == IF cells_m # None THEN CheckCells(ai1, cells_m[1], TRUE)
                  ELSE IF cells_s # None THEN CheckCells(ai1, cells_s[1], FALSE)
                  ELSE ai1
       IN CheckSentences(ai2, knowledge_copy, n + 1)

additional_check(ai) ==
  IF ai.steps >= MaxSteps THEN ai
  ELSE CheckSentences([ai EXCEPT !.steps = @ + 1], ai.knowledge, 1)

\* inference: the nested scan `for s1 in knowledge: for s2 in knowledge`
\* by list position, over the list as it is mutated and appended to.  The
\* scan state is the AI object together with the local flag checkNeed.
\* s1.cells.issubset(s2.cells); the mutant tests the converse inclusion.
issubset_rev(a, b) == b \subseteq a
issubset(a, b) == a \subseteq b

\* Mutant of InferencePair: the `s3 not in self.knowledge` test left out.
InferencePair_nodedup(sc, i, j) ==
  LET ai == sc.ai
      s1 == ai.knowledge[i]
      s2 == ai.knowledge[j]
  IN IF issubset(s1.cells, s2.cells)
     THEN LET s3 == Sentence(s2.cells \ s1.cells, s2.count - s1.count)
              ai1 == [ai EXCEPT !.derived = @ \cup {s3}]
          IN IF Cardinality(s3.cells) > 0
             THEN IF known_mines(s3) # None
                  THEN [ai |-> MarkAll(ai1, s3.cells, TRUE), checkNeed |-> TRUE]
                  ELSE IF known_safes(s3) # None
                  THEN [ai |-> MarkAll(ai1, s3.cells, FALSE), checkNeed |-> TRUE]
                  ELSE [sc EXCEPT !.ai = [ai1 EXCEPT !.knowledge = Append(@, s3)]]
             ELSE [sc EXCEPT !.ai = ai1]
     ELSE sc

InferencePair(sc, i, j) ==
  LET ai == sc.ai
      s1 == ai.knowledge[i]
      s2 == ai.knowledge[j]
  IN IF issubset(s1.cells, s2.cells)
     THEN LET s3 == Sentence(s2.cells \ s1.cells, s2.count - s1.count)
              ai1 == [ai EXCEPT !.derived = @ \cup {s3}]
          IN IF Cardinality(s3.cells) > 0 /\ ~InKnowledge(s3, ai.knowledge)
             THEN IF known_mines(s3) # None
                  THEN [ai |-> MarkAll(ai1, s3.cells, TRUE), checkNeed |-> TRUE]
                  ELSE IF known_safes(s3) # None
                  THEN [ai |-> MarkAll(ai1, s3.cells, FALSE), checkNeed |-> TRUE]
                  ELSE [sc EXCEPT !.ai = [ai1 EXCEPT !.knowledge = Append(@, s3)]]
             ELSE [sc EXCEPT !.ai = ai1]
     ELSE sc

\* The inner loop `for s2 in self.knowledge` for the s1 at position i.
RECURSIVE InferenceInner(_, _, _)
InferenceInner(sc, i, j) ==
  IF j > Len(sc.ai.knowledge) \/ sc.ai.steps >= MaxSteps THEN sc
  ELSE InferenceInner(InferencePair([sc EXCEPT !.ai.steps = @ + 1], i, j),
                      i, j + 1)

\* The outer loop `for s1 in self.knowledge`.
RECURSIVE InferenceOuter(_, _)
InferenceOuter(sc, i) ==
  IF i > Len(sc.ai.knowledge) \/ sc.ai.steps >= MaxSteps THEN sc
  ELSE InferenceOuter(InferenceInner(sc, i, 1), i + 1)

\* Mutant of inference: the closing `if checkNeed: self.additional_check()`
\* left out.
inference_nocheck(ai) == InferenceOuter([ai |-> ai, checkNeed |-> FALSE], 1).ai

inference(ai) ==
  LET sc == InferenceOuter([ai |-> ai, checkNeed |-> FALSE], 1)
  IN IF sc.checkNeed THEN additional_check(sc.ai) ELSE sc.ai

\* The sentence add_knowledge builds for an observation, or None.
\* Mutant: the neighbours already known to be mines are not taken off count.
sentenceOfSurroundings_nosub(ai, cell, count) ==
  LET block == {c \in Cells : /\ c[1] \in (cell[1] - 1) .. (cell[1] + 1)
                              /\ c[2] \in (cell[2] - 1) .. (cell[2] + 1)}
      cells == {c \in block : c \notin ai.mines /\ c \notin ai.safes}
  IN IF Cardinality(cells) > 0 THEN Sentence(cells, count) ELSE None

\* Mutant: the cells already known to be safe are not left out.
sentenceOfSurroundings_keepsafes(ai, cell, count) ==
  LET block == {c \in Cells : /\ c[1] \in (cell[1] - 1) .. (cell[1] + 1)
                              /\ c[2] \in (cell[2] - 1) .. (cell[2] + 1)}
      count2 == count - Cardinality(block \cap ai.mines)
      cells == {c \in block : c \notin ai.mines}
  IN IF Cardinality(cells) > 0 THEN Sentence(cells, count2) ELSE None

sentenceOfSurroundings(ai, cell, count) ==
  LET block == {c \in Cells : /\ c[1] \in (cell[1] - 1) .. (cell[1] + 1)
                              /\ c[2] \in (cell[2] - 1) .. (cell[2] + 1)}
      count2 == count - Cardinality(block \cap ai.mines)
      cells == {c \in block : c \notin ai.mines /\ c \notin ai.safes}
  IN IF Cardinality(cells) > 0 THEN Sentence(cells, count2) ELSE None

\* Mutant of Observe: the sentence is built before the cell is marked safe.
Observe_swapped(ai, cell, count) ==
  LET ai0 == [ai EXCEPT !.moves_made = @ \cup {cell}, !.derived = {},
                        !.steps = 0]
      sent == sentenceOfSurroundings(ai0, cell, count)
      ai1 == mark_safe(ai0, cell)
  IN IF sent # None
     THEN [ai1 EXCEPT !.knowledge = Append(@, sent), !.sent = sent]
     ELSE [ai1 EXCEPT !.sent = None]

\* add_knowledge steps 1-3: record the move, mark the cell safe, build the
\* observation's sentence and append it when there is one.
Observe(ai, cell, count) ==
  LET ai1 == mark_safe([ai EXCEPT !.moves_made = @ \cup {cell}, !.derived = {},
                                  !.steps = 0], cell)
      sent == sentenceOfSurroundings(ai1, cell, count)
  IN IF sent # None
     THEN [ai1 EXCEPT !.knowledge = Append(@, sent), !.sent = sent]
     ELSE [ai1 EXCEPT !.sent = None]

\* add_knowledge steps 4-5.
Closure(ai) == inference(additional_check(ai))

add_knowledge(ai, cell, count) == Closure(Observe(ai, cell, count))

\* Mutant of make_safe_move: the moves already made are not taken off.
make_safe_move_all(ai) == IF ai.safes # {} THEN ai.safes ELSE {None}

\* make_safe_move: the values the call can return (the first cell of the
\* iteration over safes - moves_made, whose order is the set's; else None).
make_safe_move(ai) ==
  IF ai.safes \ ai.moves_made # {} THEN ai.safes \ ai.moves_made ELSE {None}

\* Mutant of make_random_move: the size test counts safes for mines.
make_random_move_safes(ai) ==
  IF Cardinality(ai.moves_made) + Cardinality(ai.safes) < Height * Width
  THEN Cells \ (ai.moves_made \cup ai.mines)
  ELSE {None}

\* make_random_move: the values the call can return.  With no cell left to
\* draw while the size test passes, the loop never returns (no value).
make_random_move(ai) ==
  IF Cardinality(ai.moves_made) + Cardinality(ai.mines) < Height * Width
  THEN Cells \ (ai.moves_made \cup ai.mines)
  ELSE {None}

\* ---------------------------------------------------------------- state
\* board: the mined cells of the Minesweeper game.
\* moves_made, mines, safes, knowledge: the fields of the MinesweeperAI.
\* last_cell, last_sent, derived, steps: the cell of the latest
\*   add_knowledge call, the sentence it built (None if none), the s3 its
\*   inference built, and the number of additional_check calls and inference
\*   pairs it went through.
\* op, ret: the caller's position; "idle" between calls, or the name of the
\*   query that has just returned ret.
\* sentence: a free-standing Sentence object (used by SpecSentence), and
\*   before: that object as it was when the latest Sentence.mark_mine or
\*   Sentence.mark_safe call on it was made (None before the first one).
VARIABLES board, moves_made, mines, safes, knowledge,
          last_cell, last_sent, derived, steps, op, ret, sentence, before

aiVars == <<moves_made, mines, safes, knowledge>>
callVars == <<last_cell, last_sent, derived, steps>>
sentVars == <<sentence, before>>
vars == <<board, moves_made, mines, safes, knowledge,
          last_cell, last_sent, derived, steps, op, ret, sentence, before>>

AI == [moves_made |-> moves_made, mines |-> mines, safes |-> safes,
       knowledge |-> knowledge, derived |-> derived, sent |-> last_sent,
       steps |-> steps]

\* Boards sparse enough to explore, or with so few safe cells that a game
\* can be played to its end within MaxMoves probes.
Boards ==
  {b \in SUBSET Cells : \/ Cardinality(b) <= MaxMines
                        \/ Cardinality(Cells \ b) <= MaxMoves}

\* MinesweeperAI.__init__ on a fresh board.
InitAI ==
  /\ moves_made = {}
  /\ mines = {}
  /\ safes = {}
  /\ knowledge = <<>>
  /\ last_cell = None
  /\ last_sent = None
  /\ derived = {}
  /\ steps = 0
  /\ op = "idle"
  /\ ret = None

Init ==
  /\ board \in Boards
  /\ InitAI
  /\ sentence = Sentence({}, 0)
  /\ before = None

\* A valid observation: the caller probes a cell that is not a mine and was
\* not probed before, and reports the board's count for it.
AddKnowledge ==
  /\ op = "idle"
  /\ Cardinality(moves_made) < MaxMoves
  /\ \E cell \in Cells \ (board \cup moves_made) :
       LET ai == add_knowledge(AI, cell, nearby_mines(board, cell))
       IN /\ moves_made' = ai.moves_made
          /\ mines' = ai.mines
          /\ safes' = ai.safes
          /\ knowledge' = ai.knowledge
          /\ derived' = ai.derived
          /\ steps' = ai.steps
          /\ last_sent' = ai.sent
          /\ last_cell' = cell
  /\ UNCHANGED <<board, op, ret, sentVars>>

MakeSafeMove ==
  /\ op = "idle"
  /\ \E r \in make_safe_move(AI) : ret' = r
  /\ op' = "make_safe_move"
  /\ UNCHANGED <<board, aiVars, callVars, sentVars>>

MakeRandomMove ==
  /\ op = "idle"
  /\ \E r \in make_random_move(AI) : ret' = r
  /\ op' = "make_random_move"
  /\ UNCHANGED <<board, aiVars, callVars, sentVars>>

\* The caller takes the returned move; the next call can be made.
Resume ==
  /\ op \in {"make_safe_move", "make_random_move"}
  /\ op' = "idle"
  /\ ret' = None
  /\ UNCHANGED <<board, aiVars, callVars, sentVars>>

Next == AddKnowledge \/ MakeSafeMove \/ MakeRandomMove \/ Resume

Spec == Init /\ [][Next]_vars

\* ------------------------------------------------- Sentence on its own
\* The Sentences of up to MaxSentenceCells cells of the grid, with counts
\* from below zero to above the number of cells.
Sentences ==
  {Sentence(cells, count) :
     cells \in {c \in SUBSET Cells : Cardinality(c) <= MaxSentenceCells},
     count \in (-1) .. (MaxSentenceCells + 1)}

InitSentence ==
  /\ board = {}
  /\ InitAI
  /\ sentence \in Sentences
  /\ before = None

KnownMines ==
  /\ op' = "known_mines"
  /\ ret' = known_mines(sentence)
  /\ UNCHANGED <<board, aiVars, callVars, sentVars>>

KnownSafes ==
  /\ op' = "known_safes"
  /\ ret' = known_safes(sentence)
  /\ UNCHANGED <<board, aiVars, callVars, sentVars>>

SentenceMarkMine ==
  /\ \E cell \in Cells :
       /\ sentence' = Sentence_mark_mine(sentence, cell)
       /\ last_cell' = cell
  /\ before' = sentence
  /\ op' = "mark_mine"
  /\ ret' = None
  /\ UNCHANGED <<board, aiVars, last_sent, derived, steps>>

SentenceMarkSafe ==
  /\ \E cell \in Cells :
       /\ sentence' = Sentence_mark_safe(sentence, cell)
       /\ last_cell' = cell
  /\ before' = sentence
  /\ op' = "mark_safe"
  /\ ret' = None
  /\ UNCHANGED <<board, aiVars, last_sent, derived, steps>>

NextSentence == KnownMines \/ KnownSafes \/ SentenceMarkMine \/ SentenceMarkSafe

SpecSentence == InitSentence /\ [][NextSentence]_vars

\* ---------------------------------------------------------------- claims
\* An add_knowledge call on cell is the step from the unprimed to the primed
\* state.
IsAddKnowledge(cell) ==
  /\ op = "idle" /\ op' = "idle"
  /\ cell \notin moves_made
  /\ cell \in moves_made'
  /\ last_cell' = cell

InBounds(s) == 0 <= s.count /\ s.count <= Cardinality(s.cells)

\* C1 (soundness): after every add_knowledge call with valid observations,
\* every cell in mines is a mine of the board and no cell in safes is one.
C1_Soundness == mines \subseteq board /\ safes \cap board = {}

C1_Witness ==
  /\ Cardinality(moves_made) >= 2
  /\ mines # {}
  /\ safes \ moves_made # {}

\* C2: after every add_knowledge call, mines and safes are disjoint.
C2_Disjoint == mines \cap safes = {}

C2_Witness ==
  /\ mines # {}
  /\ safes # {}
  /\ knowledge # <<>>

\* C3 (closure is idempotent): in every state reached after add_knowledge
\* returns, running additional_check then inference once more changes
\* neither mines nor safes nor the list of sentences.
C3_ClosureIdempotent ==
  last_cell # None =>
    LET again == Closure(AI)
    IN /\ again.mines = mines
       /\ again.safes = safes
       /\ again.knowledge = knowledge

\* C4: every sentence stored in knowledge after add_knowledge returns, and
\* every s3 that inference derived from a pair s1.cells <= s2.cells during
\* the call, has 0 <= count <= |cells|.
C4_CountInBounds ==
  /\ \A i \in DOMAIN knowledge : InBounds(knowledge[i])
  /\ \A s3 \in derived : InBounds(s3)

C4_Witness ==
  \E s3 \in derived :
    /\ s3.cells # {}
    /\ 0 < s3.count /\ s3.count < Cardinality(s3.cells)
    /\ InKnowledge(s3, knowledge)

\* C5: after add_knowledge(cell, 0) with a valid observation returns, every
\* in-bounds cell of the 8-neighbourhood of cell is in safes.
C5_ZeroCount ==
  (last_cell # None /\ nearby_mines(board, last_cell) = 0)
    => Neighbours(last_cell) \subseteq safes

C5_Witness ==
  /\ Cardinality(moves_made) >= 2
  /\ last_sent # None
  /\ nearby_mines(board, last_cell) = 0
  /\ Neighbours(last_cell) \subseteq safes

\* C6: when a valid add_knowledge(cell, count) is made where count minus the
\* number of neighbours already in mines equals the number (at least 1) of
\* neighbours in neither mines nor safes, all those neighbours are in mines
\* after the call.
C6_AllUnresolvedMines ==
  [][\A cell \in Cells :
       IsAddKnowledge(cell) =>
         LET unresolved == Neighbours(cell) \ (mines \cup safes)
             count == nearby_mines(board, cell)
         IN (/\ Cardinality(unresolved) >= 1
             /\ count - Cardinality(Neighbours(cell) \cap mines)
                  = Cardinality(unresolved))
              => unresolved \subseteq mines']_vars

C6_Witness ==
  /\ last_sent # None
  /\ last_sent.count = Cardinality(last_sent.cells)
  /\ last_sent.cells \subseteq mines
  /\ \E c \in Neighbours(last_cell) : c \in moves_made

\* C7 (subset rule): when the knowledge on which add_knowledge runs its
\* closure holds S1 and S2 with S1.cells a proper subset of S2.cells, then
\* after the closure the cells of S2.cells - S1.cells are all in safes if
\* S2.count - S1.count = 0, and all in mines if it equals their number.
C7_SubsetRule ==
  [][\A cell \in Cells :
       IsAddKnowledge(cell) =>
         LET pre == Observe(AI, cell, nearby_mines(board, cell)).knowledge
         IN \A i, j \in DOMAIN pre :
              (pre[i].cells \subseteq pre[j].cells /\ pre[i].cells # pre[j].cells)
                => LET diff == pre[j].cells \ pre[i].cells
                       n == pre[j].count - pre[i].count
                   IN /\ (n = 0 => diff \subseteq safes')
                      /\ (n = Cardinality(diff) => diff \subseteq mines')]_vars

C7_Witness ==
  /\ \E s3 \in derived :
       s3.cells # {} /\ s3.count = 0 /\ s3.cells \subseteq safes
  /\ mines # {}

\* C8: make_safe_move returns a cell in safes and not in moves_made whenever
\* there is one, returns None exactly when safes is a subset of moves_made,
\* and leaves mines, safes, moves_made and knowledge unchanged.
C8_SafeMove ==
  [][(op = "idle" /\ op' = "make_safe_move") =>
       /\ UNCHANGED <<mines, safes, moves_made, knowledge>>
       /\ (ret' = None <=> safes \subseteq moves_made)
       /\ (safes \ moves_made # {} => ret' \in safes \ moves_made)]_vars

C8_Witness ==
  /\ op = "make_safe_move"
  /\ ret \in safes \ moves_made
  /\ moves_made # {}

\* C9: in every state reachable from valid observations, make_random_move
\* returns None exactly when every cell of the grid is in moves_made or in
\* mines; any cell it returns is inside the grid and in neither of them.
C9_RandomMove ==
  op = "make_random_move" =>
    /\ (ret = None <=> Cells \subseteq (moves_made \cup mines))
    /\ (ret # None => ret \in Cells /\ ret \notin (moves_made \cup mines))

C9_Witness ==
  /\ op = "make_random_move"
  /\ ret = None
  /\ mines # {}
  /\ moves_made # {}

\* C10: for every Sentence S, known_mines returns S.cells exactly when
\* S.count = |S.cells| and S.count > 0 and None in every other case; and
\* whenever it returns S.cells, known_safes returns None.
C10_KnownMines ==
  op = "known_mines" =>
    IF sentence.count = Cardinality(sentence.cells) /\ sentence.count > 0
    THEN ret = Some(sentence.cells) /\ known_safes(sentence) = None
    ELSE ret = None

C10_Witness ==
  /\ op = "known_mines"
  /\ ret = Some(sentence.cells)
  /\ Cardinality(sentence.cells) >= 2

\* C11: for every Sentence S, known_safes returns S.cells exactly when
\* S.count = 0 and |S.cells| > 0 and None in every other case (the empty
\* sentence with count 0 included); and whenever it returns S.cells,
\* known_mines returns None.
C11_KnownSafes ==
  op = "known_safes" =>
    IF sentence.count = 0 /\ Cardinality(sentence.cells) > 0
    THEN ret = Some(sentence.cells) /\ known_mines(sentence) = None
    ELSE ret = None

C11_Witness ==
  /\ op = "known_safes"
  /\ ret = Some(sentence.cells)
  /\ Cardinality(sentence.cells) >= 2
  /\ known_mines(sentence) = None

\* C12: Sentence.mark_mine and Sentence.mark_safe are idempotent: when a call
\* with a cell has returned, a second call with the same cell leaves the
\* sentence as the first call left it.
C12_MarkIdempotent ==
  /\ op = "mark_mine" => Sentence_mark_mine(sentence, last_cell) = sentence
  /\ op = "mark_safe" => Sentence_mark_safe(sentence, last_cell) = sentence

C12_Witness ==
  /\ op = "mark_mine"
  /\ last_cell \in before.cells
  /\ sentence.cells # {}
  /\ sentence # before

\* C13: Sentence.mark_mine(cell) with cell in cells removes exactly that cell
\* and lowers count by exactly 1; Sentence.mark_safe(cell) with cell in cells
\* removes exactly that cell and keeps count; either call with cell not in
\* cells changes neither cells nor count.
C13_MarkFrame ==
  op \in {"mark_mine", "mark_safe"} =>
    IF last_cell \in before.cells
    THEN /\ sentence.cells = before.cells \ {last_cell}
         /\ sentence.count = IF op = "mark_mine" THEN before.count - 1
                                                ELSE before.count
    ELSE sentence = before

C13_Witness ==
  /\ op = "mark_safe"
  /\ last_cell \in before.cells
  /\ sentence.cells # {}
  /\ sentence.count = before.count
  /\ sentence.count > 0

\* C14: after every add_knowledge call, no sentence in knowledge contains a
\* cell that is in mines or in safes.
C14_NoResolvedCell ==
  \A i \in DOMAIN knowledge : knowledge[i].cells \cap (mines \cup safes) = {}

C14_Witness ==
  /\ Len(knowledge) >= 2
  /\ safes \ moves_made # {}
  /\ \A i \in DOMAIN knowledge : knowledge[i].cells \cap (mines \cup safes) = {}

\* C15: after every add_knowledge call, knowledge holds no two equal
\* sentences (same cells and same count) at different positions.
C15_NoDuplicates ==
  \A i, j \in DOMAIN knowledge : i # j => knowledge[i] # knowledge[j]

\* C16: after every add_knowledge call no sentence in knowledge has an empty
\* cell set, and no sentence with a non-empty cell set has been removed:
\* every sentence the closure started from that still has a cell outside
\* mines and safes is in knowledge, reduced to those cells and with the
\* cells now in mines counted off.
C16_EmptyRemoved ==
  [][\A cell \in Cells :
       IsAddKnowledge(cell) =>
         LET pre == Observe(AI, cell, nearby_mines(board, cell)).knowledge
         IN /\ \A i \in DOMAIN knowledge' : knowledge'[i].cells # {}
            /\ \A i \in DOMAIN pre :
                 LET rest == pre[i].cells \ (mines' \cup safes')
                     n == pre[i].count - Cardinality(pre[i].cells \cap mines')
                 IN rest # {} => InKnowledge(Sentence(rest, n), knowledge')]_vars

C16_Witness ==
  /\ last_sent # None
  /\ last_sent.cells \subseteq (mines \cup safes)
  /\ knowledge # <<>>
  /\ \A i \in DOMAIN knowledge : knowledge[i].cells # {}

\* C17 (fact extraction is saturated): when add_knowledge has returned, no
\* sentence in knowledge has a known_mines() or known_safes() other than
\* None.
C17_NoKnownSentence ==
  \A i \in DOMAIN knowledge :
    known_mines(knowledge[i]) = None /\ known_safes(knowledge[i]) = None

C17_Witness ==
  /\ knowledge # <<>>
  /\ \E s3 \in derived :
       /\ s3.cells # {}
       /\ s3.count = Cardinality(s3.cells)
       /\ s3.cells \subseteq mines
  /\ \A i \in DOMAIN knowledge :
       known_mines(knowledge[i]) = None /\ known_safes(knowledge[i]) = None

\* C18: every add_knowledge call terminates: the recursion of
\* additional_check and the scan of inference reach their end by themselves,
\* before the call has taken MaxSteps steps.
C18_Terminates == steps < MaxSteps

C18_Witness ==
  /\ steps >= 40
  /\ steps < MaxSteps
  /\ mines # {}
  /\ knowledge # <<>>

\* C19: the sentence add_knowledge(cell, count) builds has as cells the
\* in-bounds cells of the 3x3 block around cell that are in neither safes
\* nor mines (cell itself never among them) and as count the reported count
\* minus the number of in-bounds block cells in mines; it is appended to
\* knowledge exactly when that cell set is not empty.
C19_ObservationSentence ==
  [][\A cell \in Cells :
       IsAddKnowledge(cell) =>
         LET block == Neighbours(cell) \cup {cell}
             count == nearby_mines(board, cell)
             cells == block \ (safes \cup mines \cup {cell})
             marked == [i \in DOMAIN knowledge |->
                          Sentence(knowledge[i].cells \ {cell}, knowledge[i].count)]
             obs == Observe(AI, cell, count)
         IN IF cells # {}
            THEN /\ last_sent' = Sentence(cells, count - Cardinality(block \cap mines))
                 /\ obs.knowledge = Append(marked, last_sent')
            ELSE /\ last_sent' = None
                 /\ obs.knowledge = marked]_vars

C19_Witness ==
  /\ last_sent # None
  /\ last_sent.count < nearby_mines(board, last_cell)
  /\ last_sent.cells # Neighbours(last_cell)
  /\ last_cell \notin last_sent.cells

\* C20 (the closure does not depend on the order of the sentences): when
\* two sentences of the knowledge add_knowledge runs its closure on are
\* exchanged before additional_check and inference run, the closure ends
\* with the same mines and the same safes.
Exchange(seq, i, j) ==
  [k \in DOMAIN seq |-> IF k = i THEN seq[j] ELSE IF k = j THEN seq[i] ELSE seq[k]]

C20_OrderIndependent ==
  [][\A cell \in Cells :
       IsAddKnowledge(cell) =>
         LET obs == Observe(AI, cell, nearby_mines(board, cell))
         IN \A i, j \in DOMAIN obs.knowledge :
              i < j =>
                LET other == Closure([obs EXCEPT !.knowledge = Exchange(@, i, j)])
                IN other.mines = mines' /\ other.safes = safes']_vars

====
